---- MODULE Spec2Model ----
(***************************************************************************)
(* Model of nfc_writer.py: the NDEF URI codec and TLV framing of           *)
(* ACR1252U_NTAG216Writer.create_ndef_uri, the page writer write_url and   *)
(* the session that main() drives (reader discovery, the card-presence     *)
(* loop, the command exchanges and the final disconnect).                  *)
(*                                                                         *)
(* Strings are sequences of Unicode code points, byte strings are          *)
(* sequences of integers.  The smart-card transport (pyscard) is the       *)
(* environment: its answers are chosen nondeterministically.               *)
(***************************************************************************)
EXTENDS Integers, Sequences, FiniteSets, TLC

VARIABLES
    url,                \* the URL handed to write_url / create_ndef_uri
    pc,                 \* position of main() (or of the codec run)
    available_readers,  \* find_reader: the list readers() returned
    reader,             \* self.reader
    connection,         \* self.connection: "None" or "conn"
    card_connected,     \* transport: connection.connect() has succeeded
    attempts,           \* iterations of the card-presence loop started
    last_connect,       \* how the latest connect_card() call ended
    only_nocard,        \* every connect_card() call so far met "no card"
    uid,                \* get_uid's response bytes
    uri_code,           \* create_ndef_uri: uri_code
    uri_data,           \* create_ndef_uri: uri_data
    ndef_data,          \* write_url: ndef_data (the TLV, then padded)
    i,                  \* write_url: offset of the next chunk
    page,               \* write_url: page of the next chunk
    log,                \* transport: every transmit() call and its answer
    tag,                \* transport: the tag's pages that were written
    err,                \* the exception that reached main's handler
    exit_code,          \* -1 (still running), 0 (main returned) or 1 (sys.exit(1))
    disconnect_calls,   \* calls of writer.disconnect()
    release_attempts,   \* calls of connection.disconnect()
    release_failed      \* connection.disconnect() raised

vars == <<url, pc, available_readers, reader, connection, card_connected,
          attempts, last_connect, only_nocard, uid, uri_code, uri_data, ndef_data, i, page,
          log, tag, err, exit_code, disconnect_calls, release_attempts,
          release_failed>>

-----------------------------------------------------------------------------
(* Bounds of the model *)

\* longest reader enumeration
MaxReaders == 2
\* short URL tails have 0..MaxShortFill filler characters
MaxShortFill == 3
\* long URL tails have LongFillMax - LongFillSpan .. LongFillMax filler characters
LongFillMax == 256
LongFillSpan == 9
\* write_page on its own is given 0..MaxDataLen data bytes
MaxDataLen == 5

-----------------------------------------------------------------------------
(* Generic helpers *)

Min(a, b) == IF a < b THEN a ELSE b

\* Python's s[a:b] on a sequence, 0 <= a
Slice(s, a, b) == SubSeq(s, a + 1, Min(b, Len(s)))

\* n copies of c
Fill(c, n) == [k \in 1..n |-> c]

\* str.lower() on one code point (ASCII and Latin-1 capitals)
Lower(c) ==
    IF c \in 65..90 \/ (c \in 192..222 /\ c # 215) THEN c + 32 ELSE c

LowerStr(s) == [k \in 1..Len(s) |-> Lower(s[k])]

\* str.startswith
StartsWith(s, p) == Len(p) <= Len(s) /\ SubSeq(s, 1, Len(p)) = p

\* UTF-8 encoding of one code point
Utf8Char(c) ==
    IF c < 128 THEN <<c>>
    ELSE IF c < 2048 THEN <<192 + (c \div 64), 128 + (c % 64)>>
    ELSE IF c < 65536
         THEN <<224 + (c \div 4096), 128 + ((c \div 64) % 64), 128 + (c % 64)>>
         ELSE <<240 + (c \div 262144), 128 + ((c \div 4096) % 64),
                128 + ((c \div 64) % 64), 128 + (c % 64)>>

\* the encodings of s[lo..hi], concatenated (halving keeps the recursion shallow)
RECURSIVE Utf8Range(_, _, _)
Utf8Range(s, lo, hi) ==
    IF lo > hi THEN <<>>
    ELSE IF lo = hi THEN Utf8Char(s[lo])
    ELSE LET mid == (lo + hi) \div 2
         IN  Utf8Range(s, lo, mid) \o Utf8Range(s, mid + 1, hi)

\* str.encode('utf-8')
Utf8(s) == Utf8Range(s, 1, Len(s))

-----------------------------------------------------------------------------
(* Class constants *)

\* "ACR1252"
READER_NAME_PATTERN == <<65, 67, 82, 49, 50, 53, 50>>

\* the user area taken to start one page later
UserStartPageLate == 4 + 1

NTAG216_USER_START_PAGE == 4

\* the table with the short prefixes listed first
URI_IDENTIFIERS_Shadowed ==
    << [prefix |-> <<104,116,116,112,58,47,47>>,                    code |-> 3],
       [prefix |-> <<104,116,116,112,115,58,47,47>>,                code |-> 4],
       [prefix |-> <<104,116,116,112,58,47,47,119,119,119,46>>,     code |-> 1],
       [prefix |-> <<104,116,116,112,115,58,47,47,119,119,119,46>>, code |-> 2],
       [prefix |-> <<116,101,108,58>>,                              code |-> 5],
       [prefix |-> <<109,97,105,108,116,111,58>>,                   code |-> 6],
       [prefix |-> <<102,116,112,58,47,47>>,                        code |-> 13] >>

\* URI_IDENTIFIERS in the dict's insertion order, which is its iteration order
URI_IDENTIFIERS ==
    << [prefix |-> <<104,116,116,112,58,47,47,119,119,119,46>>,     code |-> 1],   \* "http://www."
       [prefix |-> <<104,116,116,112,115,58,47,47,119,119,119,46>>, code |-> 2],   \* "https://www."
       [prefix |-> <<104,116,116,112,58,47,47>>,                    code |-> 3],   \* "http://"
       [prefix |-> <<104,116,116,112,115,58,47,47>>,                code |-> 4],   \* "https://"
       [prefix |-> <<116,101,108,58>>,                              code |-> 5],   \* "tel:"
       [prefix |-> <<109,97,105,108,116,111,58>>,                   code |-> 6],   \* "mailto:"
       [prefix |-> <<102,116,112,58,47,47>>,                        code |-> 13] >> \* "ftp://"

-----------------------------------------------------------------------------
(* create_ndef_uri *)

\* indices of the table entries whose prefix url.lower() starts with
Matching(u) ==
    {k \in 1..Len(URI_IDENTIFIERS) :
        StartsWith(LowerStr(u), URI_IDENTIFIERS[k].prefix)}

\* the for/break loop: the first entry in iteration order that matches
UriMatch(u) ==
    IF Matching(u) = {}
    THEN [code |-> 0, data |-> u]
    ELSE LET k == CHOOSE m \in Matching(u) : \A n \in Matching(u) : m <= n
         IN  [code |-> URI_IDENTIFIERS[k].code,
              data |-> Slice(u, Len(URI_IDENTIFIERS[k].prefix), Len(u))]

\* uri_bytes = [uri_code] + list(uri_data.encode('utf-8'))
UriBytes(code, data) == <<code>> \o Utf8(data)

\* ndef_record = [0xD1, 0x01, payload_len, 0x55] + uri_bytes
NdefRecord(uri_bytes) == <<209, 1, Len(uri_bytes), 85>> \o uri_bytes

\* the TLV block with the 1-byte length form used up to 255 inclusive
TlvBlockOffByOne(ndef_record) ==
    LET ndef_len == Len(ndef_record)
    IN  IF ndef_len <= 255
        THEN <<3, ndef_len>> \o ndef_record \o <<254>>
        ELSE <<3, 255, (ndef_len \div 256) % 256, ndef_len % 256>>
                 \o ndef_record \o <<254>>

\* the TLV block with the 3-byte length form in little-endian order
TlvBlockLittleEndian(ndef_record) ==
    LET ndef_len == Len(ndef_record)
    IN  IF ndef_len < 255
        THEN <<3, ndef_len>> \o ndef_record \o <<254>>
        ELSE <<3, 255, ndef_len % 256, (ndef_len \div 256) % 256>>
                 \o ndef_record \o <<254>>

\* the TLV block around the record
TlvBlock(ndef_record) ==
    LET ndef_len == Len(ndef_record)
    IN  IF ndef_len < 255
        THEN <<3, ndef_len>> \o ndef_record \o <<254>>
        ELSE <<3, 255, (ndef_len \div 256) % 256, ndef_len % 256>>
                 \o ndef_record \o <<254>>

create_ndef_uri(u) ==
    LET m == UriMatch(u)
    IN  TlvBlock(NdefRecord(UriBytes(m.code, m.data)))

\* the padding with "4 - len % 4" zero bytes, also when len % 4 is 0
PadToPageAlways(data) == data \o Fill(0, 4 - (Len(data) % 4))

\* write_url: while len(ndef_data) % 4 != 0: ndef_data.append(0x00)
PadToPage(data) == data \o Fill(0, (4 - (Len(data) % 4)) % 4)

-----------------------------------------------------------------------------
(* The URLs the model runs on *)

\* "https://www.pwc.com", the URL of main()
MainUrl == <<104, 116, 116, 112, 115, 58, 47, 47, 119, 119, 119, 46, 112, 119, 99, 46, 99, 111, 109>>

\* "example.com"
ExampleTail == <<101, 120, 97, 109, 112, 108, 101, 46, 99, 111, 109>>

\* scheme spellings: the table's prefixes, upper- and mixed-case spellings of
\* them, near misses and no scheme at all
UrlHeads ==
    { <<>>,
      <<104, 116, 116, 112, 58, 47, 47, 119, 119, 119, 46>>,
      <<104, 116, 116, 112, 115, 58, 47, 47, 119, 119, 119, 46>>,
      <<104, 116, 116, 112, 58, 47, 47>>,
      <<104, 116, 116, 112, 115, 58, 47, 47>>,
      <<116, 101, 108, 58>>,
      <<109, 97, 105, 108, 116, 111, 58>>,
      <<102, 116, 112, 58, 47, 47>>,
      <<72, 84, 84, 80, 83, 58, 47, 47, 87, 87, 87, 46>>,
      <<72, 116, 116, 112, 58, 47, 47>>,
      <<84, 69, 76, 58>>,
      <<104, 116, 116, 112, 115, 58, 47>>,
      <<115, 102, 116, 112, 58, 47, 47>> }

\* what follows the scheme before the filler: nothing, "www.", "WWW.",
\* a 2-byte character and a 3-byte character
UrlJoints == { <<>>, <<119, 119, 119, 46>>, <<87, 87, 87, 46>>, <<233>>, <<3585>> }

FillLens == (0..MaxShortFill) \cup ((LongFillMax - LongFillSpan)..LongFillMax)

CodecUrls ==
    { h \o j \o Fill(97, n) : h \in UrlHeads, j \in UrlJoints, n \in FillLens }
        \cup { MainUrl } \cup { h \o ExampleTail : h \in UrlHeads }

\* session runs: main's URL, short URLs of every length modulo 4, and the
\* URLs around the 255-byte payload limit of a short record
SessionUrls ==
    { MainUrl, ExampleTail }
        \cup { <<116, 101, 108, 58>> \o Fill(49, n) : n \in 0..MaxShortFill }
        \cup { <<104, 116, 116, 112, 115, 58, 47, 47>> \o Fill(97, n) : n \in (LongFillMax - 2)..(LongFillMax - 1) }

\* write_url, lines 144-149, on each session URL: what create_ndef_uri
\* returns, padded to whole pages
SessionBuffers == [u \in SessionUrls |-> PadToPage(create_ndef_uri(u))]

-----------------------------------------------------------------------------
(* The transport: readers(), createConnection/connect, transmit, disconnect *)

\* names of the readers the system may enumerate
ReaderNames ==
    { <<65, 67, 82, 49, 50, 53, 50>>,     \* "ACR1252"
      <<65, 67, 83, 32, 65, 67, 82, 49, 50, 53, 50, 32, 48>>,     \* "ACS ACR1252 0"
      <<65, 67, 82, 49, 50, 53>>,     \* "ACR125"
      <<65, 67, 82, 49, 50, 50, 85>> }    \* "ACR122U"

RECURSIVE SeqsUpTo(_, _)
SeqsUpTo(S, n) ==
    IF n = 0 THEN { <<>> }
    ELSE LET shorter == SeqsUpTo(S, n - 1)
         IN  shorter \cup { Append(q, x) : q \in shorter, x \in S }

\* what readers() may return
Enumerations == SeqsUpTo(ReaderNames, MaxReaders)

\* how one connect_card() call may end: connected, NoCardException from
\* connect(), another exception from connect(), an exception from
\* createConnection()
ConnectOutcomes == { "ok", "nocard", "other", "createfail" }

\* what transmit() may answer: a status word, or <<>> when it raises
SW_OK == <<144, 0>>
TransmitOutcomes == { SW_OK, <<99, 0>>, <<106, 129>>, <<>> }

\* the bytes that reach the card.  A list element outside 0..255 is no byte:
\* transmit() either raises (the <<>> answer) or sends its low 8 bits
Wire(apdu) == [k \in 1..Len(apdu) |-> apdu[k] % 256]

\* the card's UID
UidBytes == <<4, 161, 178, 195, 212, 229, 246>>

IsWrite(apdu) == apdu[2] = 214

-----------------------------------------------------------------------------
(* ACR1252U_NTAG216Writer *)

NoErr == [kind |-> "None"]

\* x in s for strings: s has x as a substring
Contains(s, x) ==
    \E k \in 0..(Len(s) - Len(x)) : SubSeq(s, k + 1, k + Len(x)) = x

\* find_reader's loop with the last matching reader winning
LastMatchingReader(rs) ==
    LET hits == {k \in 1..Len(rs) : Contains(rs[k], READER_NAME_PATTERN)}
    IN  IF hits = {} THEN 0 ELSE CHOOSE k \in hits : \A m \in hits : m <= k

\* find_reader's loop: the index of the reader it selects, 0 when it falls through
FirstMatchingReader(rs) ==
    LET hits == {k \in 1..Len(rs) : Contains(rs[k], READER_NAME_PATTERN)}
    IN  IF hits = {} THEN 0 ELSE CHOOSE k \in hits : \A m \in hits : k <= m

\* {b:02X}: two upper-case hexadecimal digits
HexDigit(d) == IF d < 10 THEN 48 + d ELSE 55 + d
Hex2(b) == <<HexDigit(b \div 16), HexDigit(b % 16)>>

\* send_apdu without its test
ApduFailedNever(sw1, sw2) == FALSE

\* send_apdu's test with "and" for "or"
ApduFailedBoth(sw1, sw2) == sw1 # 144 /\ sw2 # 0

\* send_apdu: if sw1 != 0x90 or sw2 != 0x00
ApduFailed(sw1, sw2) == sw1 # 144 \/ sw2 # 0

\* the exception a transmit() answer makes send_apdu end with, NoErr for none
SendApduError(o) ==
    IF o = <<>> THEN [kind |-> "Transmit"]
    ELSE IF ApduFailed(o[1], o[2])
         THEN [kind |-> "APDUFailed", sw |-> Hex2(o[1]) \o Hex2(o[2])]
         ELSE NoErr

\* write_page with the zero bytes put before the data
WritePageApduLeftPad(p, data) ==
    LET padded == IF Len(data) # 4 THEN Fill(0, 4 - Len(data)) \o data ELSE data
    IN  <<255, 214, 0, p, 4>> \o Slice(padded, 0, 4)

\* write_page: the APDU it builds
WritePageApdu(p, data) ==
    LET padded == IF Len(data) # 4 THEN data \o Fill(0, 4 - Len(data)) ELSE data
    IN  <<255, 214, 0, p, 4>> \o Slice(padded, 0, 4)

\* get_uid's APDU
GetUidApdu == <<255, 202, 0, 0, 0>>

\* the Capability Container written to page 3
CapabilityContainer == <<225, 16, 109, 0>>

\* the card-presence loop with one iteration too many
RetryBudgetPlusOne == 30 + 1

\* range(30) of the card-presence loop
RetryBudget == 30

\* write_url: chunk = ndef_data[i:i+4]
Chunk(data, k) == Slice(data, k, k + 4)

\* write_url: page += 2
NextPageSkipping(p) == p + 2

\* write_url: the page is not advanced
NextPageStuck(p) == p

\* write_url: page += 1
NextPage(p) == p + 1

\* disconnect without its guard
HasConnectionAlways(c) == TRUE

\* disconnect: if self.connection
HasConnection(c) == c # "None"

\* main: except Exception as e: print, sys.exit(1); the finally clause follows
Raise(e) ==
    /\ err' = e
    /\ exit_code' = 1
    /\ pc' = "finally"

\* one transmit() call and its answer, as the transport sees it
Exchange(apdu, o) ==
    /\ log' = Append(log, [apdu |-> apdu, sw |-> o])
    /\ tag' = IF IsWrite(apdu) /\ o = SW_OK
              THEN (Wire(apdu)[4] :> SubSeq(Wire(apdu), 6, 9)) @@ tag
              ELSE tag

-----------------------------------------------------------------------------
(* main() *)

Idle ==
    /\ available_readers = <<>>
    /\ reader = <<>>
    /\ connection = "None"
    /\ card_connected = FALSE
    /\ attempts = 0
    /\ last_connect = "none"
    /\ only_nocard = TRUE
    /\ uid = <<>>
    /\ uri_code = 0
    /\ uri_data = <<>>
    /\ ndef_data = <<>>
    /\ i = 0
    /\ page = 0
    /\ log = <<>>
    /\ tag = <<>>
    /\ err = NoErr
    /\ exit_code = -1
    /\ disconnect_calls = 0
    /\ release_attempts = 0
    /\ release_failed = FALSE

\* writer = ACR1252U_NTAG216Writer(), before the try block
Init ==
    /\ url \in SessionUrls
    /\ pc = "start"
    /\ Idle

\* find_reader: available_readers = readers()
Readers ==
    /\ pc = "start"
    /\ \E rs \in Enumerations : available_readers' = rs
    /\ pc' = "find_reader"
    /\ UNCHANGED <<url, reader, connection, card_connected, attempts,
                   last_connect, only_nocard, uid, uri_code, uri_data, ndef_data, i, page,
                   log, tag, err, exit_code, disconnect_calls,
                   release_attempts, release_failed>>

\* find_reader, after readers() has returned
FindReader ==
    /\ pc = "find_reader"
    /\ available_readers' = <<>>
    /\ IF available_readers = <<>>
       THEN /\ Raise([kind |-> "NoReaders"])
            /\ UNCHANGED reader
       ELSE IF FirstMatchingReader(available_readers) = 0
       THEN /\ Raise([kind |-> "ReaderNotFound", available |-> available_readers])
            /\ UNCHANGED reader
       ELSE /\ reader' = available_readers[FirstMatchingReader(available_readers)]
            /\ pc' = "connect"
            /\ UNCHANGED <<err, exit_code>>
    /\ UNCHANGED <<url, connection, card_connected, attempts, last_connect, only_nocard,
                   uid, uri_code, uri_data, ndef_data, i, page, log, tag,
                   disconnect_calls, release_attempts, release_failed>>

\* the card-presence loop as a "while True" that counts nothing
ConnectCardNoCount ==
    /\ pc = "connect"
    /\ \E o \in ConnectOutcomes :
        /\ last_connect' = o
        /\ only_nocard' = (only_nocard /\ o = "nocard")
        /\ connection' = IF o = "createfail" THEN connection ELSE "conn"
        /\ card_connected' = (card_connected \/ o = "ok")
        /\ pc' = IF o = "ok" THEN "get_uid" ELSE "connect"
    /\ UNCHANGED <<url, available_readers, reader, attempts, uid, uri_code,
                   uri_data, ndef_data, i, page, log, tag, err, exit_code,
                   disconnect_calls, release_attempts, release_failed>>

\* connect_card returning whatever connect() did
ConnectedRegardless(o) == TRUE

\* connect_card returns normally (and main breaks out of the loop) exactly
\* when createConnection() and connect() both returned
Connected(o) == o = "ok"

\* one iteration of "for _ in range(30)": connect_card(), then break, or the
\* bare except and the sleep; the else clause when the range is used up
ConnectCard ==
    /\ pc = "connect"
    /\ attempts < RetryBudget
    /\ attempts' = attempts + 1
    /\ \E o \in ConnectOutcomes :
        /\ last_connect' = o
        /\ only_nocard' = (only_nocard /\ o = "nocard")
        /\ connection' = IF o = "createfail" THEN connection ELSE "conn"
        /\ card_connected' = (card_connected \/ o = "ok")
        /\ IF Connected(o)
           THEN /\ pc' = "get_uid"
                /\ UNCHANGED <<err, exit_code>>
           ELSE /\ IF attempts + 1 = RetryBudget
                   THEN Raise([kind |-> "Timeout"])
                   ELSE /\ pc' = "connect"
                        /\ UNCHANGED <<err, exit_code>>
    /\ UNCHANGED <<url, available_readers, reader, uid, uri_code, uri_data,
                   ndef_data, i, page, log, tag, disconnect_calls,
                   release_attempts, release_failed>>

\* get_uid taking the answer without looking at its status word
GetUidUnchecked ==
    /\ pc = "get_uid"
    /\ \E o \in TransmitOutcomes :
        /\ Exchange(GetUidApdu, o)
        /\ IF o # <<>>
           THEN /\ uid' = UidBytes
                /\ pc' = "write_cc"
                /\ UNCHANGED <<err, exit_code>>
           ELSE /\ Raise(SendApduError(o))
                /\ UNCHANGED uid
    /\ UNCHANGED <<url, available_readers, reader, connection, card_connected,
                   attempts, last_connect, only_nocard, uri_code, uri_data, ndef_data, i,
                   page, disconnect_calls, release_attempts, release_failed>>

\* write_url: uid = self.get_uid()
GetUid ==
    /\ pc = "get_uid"
    /\ \E o \in TransmitOutcomes :
        /\ Exchange(GetUidApdu, o)
        /\ IF SendApduError(o) = NoErr
           THEN /\ uid' = UidBytes
                /\ pc' = "write_cc"
                /\ UNCHANGED <<err, exit_code>>
           ELSE /\ Raise(SendApduError(o))
                /\ UNCHANGED uid
    /\ UNCHANGED <<url, available_readers, reader, connection, card_connected,
                   attempts, last_connect, only_nocard, uri_code, uri_data, ndef_data, i,
                   page, disconnect_calls, release_attempts, release_failed>>

\* write_url: create_ndef_uri, the padding, write_page(3, CC)
WriteCapabilityContainer ==
    /\ pc = "write_cc"
    /\ uri_code' = UriMatch(url).code
    /\ uri_data' = UriMatch(url).data
    /\ ndef_data' = SessionBuffers[url]
    /\ \E o \in TransmitOutcomes :
        /\ Exchange(WritePageApdu(3, CapabilityContainer), o)
        /\ IF SendApduError(o) = NoErr
           THEN /\ page' = NTAG216_USER_START_PAGE
                /\ i' = 0
                /\ pc' = "write_data"
                /\ UNCHANGED <<err, exit_code>>
           ELSE /\ Raise(SendApduError(o))
                /\ UNCHANGED <<page, i>>
    /\ UNCHANGED <<url, available_readers, reader, connection, card_connected,
                   attempts, last_connect, only_nocard, uid, disconnect_calls,
                   release_attempts, release_failed>>

\* write_url: one iteration of "for i in range(0, len(ndef_data), 4)"
WriteDataPage ==
    /\ pc = "write_data"
    /\ i < Len(ndef_data)
    /\ \E o \in TransmitOutcomes :
        /\ Exchange(WritePageApdu(page, Chunk(ndef_data, i)), o)
        /\ IF SendApduError(o) = NoErr
           THEN /\ page' = NextPage(page)
                /\ i' = i + 4
                /\ UNCHANGED <<pc, err, exit_code>>
           ELSE /\ Raise(SendApduError(o))
                /\ UNCHANGED <<page, i>>
    /\ UNCHANGED <<url, available_readers, reader, connection, card_connected,
                   attempts, last_connect, only_nocard, uid, uri_code, uri_data, ndef_data,
                   disconnect_calls, release_attempts, release_failed>>

\* write_url returns, main prints SUCCESS and leaves the try block
WriteUrlReturns ==
    /\ pc = "write_data"
    /\ i >= Len(ndef_data)
    /\ exit_code' = 0
    /\ pc' = "finally"
    /\ UNCHANGED <<url, available_readers, reader, connection, card_connected,
                   attempts, last_connect, only_nocard, uid, uri_code, uri_data, ndef_data,
                   i, page, log, tag, err, disconnect_calls, release_attempts,
                   release_failed>>

\* finally: writer.disconnect()
Disconnect ==
    /\ pc = "finally"
    /\ disconnect_calls' = disconnect_calls + 1
    /\ IF HasConnection(connection)
       THEN /\ release_attempts' = release_attempts + 1
            /\ \E raised \in BOOLEAN :
                /\ release_failed' = raised
                /\ card_connected' = IF raised THEN card_connected ELSE FALSE
       ELSE UNCHANGED <<release_attempts, release_failed, card_connected>>
    /\ pc' = "closed"
    /\ UNCHANGED <<url, available_readers, reader, connection, attempts,
                   last_connect, only_nocard, uid, uri_code, uri_data, ndef_data, i, page,
                   log, tag, err, exit_code>>

Next ==
    \/ Readers
    \/ FindReader
    \/ ConnectCard
    \/ GetUid
    \/ WriteCapabilityContainer
    \/ WriteDataPage
    \/ WriteUrlReturns
    \/ Disconnect

Spec == Init /\ [][Next]_vars

\* main is straight-line code: while a step is left to take, it is taken
\* (every transport call returns, time.sleep(1) returns)
SpecFair == Spec /\ WF_vars(Next)

-----------------------------------------------------------------------------
(* create_ndef_uri on its own, over a wide range of URLs *)

InitCodec ==
    /\ url \in CodecUrls
    /\ pc = "codec"
    /\ Idle

CreateNdefUri ==
    /\ pc = "codec"
    /\ uri_code' = UriMatch(url).code
    /\ uri_data' = UriMatch(url).data
    /\ ndef_data' = create_ndef_uri(url)
    /\ pc' = "codec_done"
    /\ UNCHANGED <<url, available_readers, reader, connection, card_connected,
                   attempts, last_connect, only_nocard, uid, i, page, log, tag, err,
                   exit_code, disconnect_calls, release_attempts,
                   release_failed>>

\* write_url's padding loop, applied to the block create_ndef_uri returned
PadBuffer ==
    /\ pc = "codec_done"
    /\ ndef_data' = PadToPage(ndef_data)
    /\ pc' = "codec_padded"
    /\ UNCHANGED <<url, available_readers, reader, connection, card_connected,
                   attempts, last_connect, only_nocard, uid, uri_code, uri_data,
                   i, page, log, tag, err, exit_code, disconnect_calls,
                   release_attempts, release_failed>>

NextCodec ==
    \/ CreateNdefUri
    \/ PadBuffer

SpecCodec == InitCodec /\ [][NextCodec]_vars

-----------------------------------------------------------------------------
(* write_page on its own: here page and ndef_data hold its two arguments *)

PageArgs == {3, 4, 69, 225}

DataArgs == SeqsUpTo({0, 7, 255}, MaxDataLen)

InitWritePage ==
    /\ url = <<>>
    /\ pc = "write_page"
    /\ available_readers = <<>>
    /\ reader = <<>>
    /\ connection = "conn"
    /\ card_connected = TRUE
    /\ attempts = 1
    /\ last_connect = "ok"
    /\ only_nocard = FALSE
    /\ uid = <<>>
    /\ uri_code = 0
    /\ uri_data = <<>>
    /\ ndef_data \in DataArgs
    /\ i = 0
    /\ page \in PageArgs
    /\ log = <<>>
    /\ tag = <<>>
    /\ err = NoErr
    /\ exit_code = -1
    /\ disconnect_calls = 0
    /\ release_attempts = 0
    /\ release_failed = FALSE

\* write_page(page, data): the APDU is built and handed to send_apdu
WritePage ==
    /\ pc = "write_page"
    /\ \E o \in TransmitOutcomes :
        /\ Exchange(WritePageApdu(page, ndef_data), o)
        /\ err' = SendApduError(o)
    /\ pc' = "write_page_done"
    /\ UNCHANGED <<url, available_readers, reader, connection, card_connected,
                   attempts, last_connect, only_nocard, uid, uri_code, uri_data,
                   ndef_data, i, page, exit_code, disconnect_calls,
                   release_attempts, release_failed>>

NextWritePage == WritePage

SpecWritePage == InitWritePage /\ [][NextWritePage]_vars

-----------------------------------------------------------------------------
(* What the claims are stated over *)

\* the write commands handed to the transport so far, in order
Writes == SelectSeq(log, LAMBDA e : IsWrite(e.apdu))

\* the data page writes: every write after the first one
DataWrites == SubSeq(Writes, 2, Len(Writes))

\* the tag's pages first .. first + n - 1 read one after the other; a page
\* that was never written reads as <<-1>>
RECURSIVE ReadPages(_, _)
ReadPages(first, n) ==
    IF n = 0 THEN <<>>
    ELSE IF n = 1 THEN (IF first \in DOMAIN tag THEN tag[first] ELSE <<-1>>)
    ELSE ReadPages(first, n \div 2) \o ReadPages(first + (n \div 2), n - (n \div 2))

\* the value of an upper-case hexadecimal digit
HexValue(ch) == IF ch \in 48..57 THEN ch - 48 ELSE ch - 55

\* the two bytes a four-digit status text stands for
StatusOfText(txt) ==
    <<16 * HexValue(txt[1]) + HexValue(txt[2]),
      16 * HexValue(txt[3]) + HexValue(txt[4])>>

Exited == pc \in {"finally", "closed"}

-----------------------------------------------------------------------------
\* C1: the first write command of a run addresses page 3 (the capability
\* container) and the write commands after it address pages 4, 5, 6, ... in
\* this order, each one greater than the one before, with no gap.
C1_WriteOrder ==
    LET ws == Writes
        dw == SubSeq(ws, 2, Len(ws))
    IN  /\ ws # <<>> =>
              ws[1].apdu = <<255, 214, 0, 3, 4>> \o CapabilityContainer
        /\ \A k \in 1..Len(dw) : dw[k].apdu[4] = 4 + (k - 1)
        /\ \A k \in 2..Len(dw) : dw[k].apdu[4] = dw[k - 1].apdu[4] + 1

\* a finished run that wrote the capability container and three data pages
C1_Witness ==
    /\ pc = "closed"
    /\ Len(log) >= 5
    /\ LET dw == DataWrites
       IN  Len(dw) >= 3 /\ dw[3].apdu[4] = 6

\* C2: a run in which every exchange succeeds issues exactly
\* ceil(len(buffer) / 4) data page writes, the k-th (from 0) to page 4 + k
\* with bytes 4k .. 4k+3 of the padded buffer, and the tag's user pages read
\* one after the other then equal the buffer byte for byte.
C2_PagesEqualBuffer ==
    (pc = "closed" /\ exit_code = 0) =>
        LET n == (Len(ndef_data) + 3) \div 4
            dw == DataWrites
        IN  /\ Len(dw) = n
            /\ \A k \in 0..(n - 1) :
                  dw[k + 1].apdu =
                      <<255, 214, 0, 4 + k, 4>>
                          \o SubSeq(ndef_data, 4 * k + 1, 4 * k + 4)
            /\ ReadPages(4, n) = ndef_data

\* C3: a write command answered with a status other than 0x9000 is the last
\* command of the run, and the run fails with an error whose text holds
\* exactly the two status bytes of that answer.
C3_FailedWriteStops ==
    \A k \in 1..Len(log) :
        (IsWrite(log[k].apdu) /\ log[k].sw # <<>> /\ log[k].sw # <<144, 0>>) =>
            /\ k = Len(log)
            /\ Exited
            /\ exit_code = 1
            /\ err.kind = "APDUFailed"
            /\ Len(err.sw) = 4
            /\ StatusOfText(err.sw) = log[k].sw

\* a data page write answered 0x6A81 after two good data page writes
C3_Witness ==
    /\ pc = "closed"
    /\ err.kind = "APDUFailed"
    /\ LET dw == DataWrites
       IN  Len(dw) = 3 /\ dw[3].sw = <<106, 129>>

\* C4 as stated: on every exit path the release of the connection is
\* attempted exactly once.
C4_ReleaseOnEveryExit ==
    pc = "closed" => release_attempts = 1

\* C4 as amended: on every exit path disconnect() is called exactly once; it
\* attempts the release exactly once when a connection object exists and not
\* at all when none was created; a release that fails leaves the outcome of
\* the run (success exactly when no error was raised) as it was.
C4_DisconnectOnEveryExit ==
    /\ pc = "closed" =>
          /\ disconnect_calls = 1
          /\ release_attempts = (IF connection = "None" THEN 0 ELSE 1)
          /\ exit_code = (IF err = NoErr THEN 0 ELSE 1)
    /\ pc # "closed" =>
          /\ disconnect_calls = 0
          /\ release_attempts = 0
          /\ ~release_failed

\* a run that succeeded and whose release of the connection failed
C4_Witness ==
    /\ pc = "closed"
    /\ release_failed
    /\ release_attempts = 1
    /\ exit_code = 0

\* C5: no run makes more than 30 connection attempts; when all 30 meet "no
\* card" the run fails with the timeout error, no command was exchanged, and
\* disconnect() runs exactly once.
C5_CardTimeout ==
    /\ attempts <= 30
    /\ (attempts = 30 /\ only_nocard) =>
          /\ Exited
          /\ err = [kind |-> "Timeout"]
          /\ exit_code = 1
          /\ log = <<>>
          /\ tag = <<>>
          /\ disconnect_calls = (IF pc = "closed" THEN 1 ELSE 0)

\* a closed run whose 30 attempts all met "no card"
C5_Witness ==
    /\ pc = "closed"
    /\ attempts = 30
    /\ only_nocard
    /\ err.kind = "Timeout"
    /\ disconnect_calls = 1

\* C6 as stated: a connection attempt that fails with an error other than
\* "no card" ends the run at once: the run has failed and no further attempt
\* is pending.
C6_OtherErrorIsFatal ==
    last_connect \in {"other", "createfail"} =>
        /\ Exited
        /\ exit_code = 1

\* the payload create_ndef_uri builds for the run's URL has more than 255 bytes
PayloadOversize == 1 + Len(Utf8(UriMatch(url).data)) > 255

\* C7 as stated: when the URL's payload exceeds 255 bytes, write_url makes
\* no exchange with the tag (no UID read, no page write) and the run that
\* reached write_url fails with PayloadTooLarge.
C7_OversizeRejected ==
    (last_connect = "ok" /\ pc # "get_uid" /\ PayloadOversize) =>
        /\ log = <<>>
        /\ tag = <<>>
        /\ Exited
        /\ err.kind = "PayloadTooLarge"

\* the step find_reader takes, read off the enumeration it was given
C8_Selects ==
    pc = "find_reader" =>
        LET rs   == available_readers
            hits == {k \in 1..Len(rs) : Contains(rs[k], <<65, 67, 82, 49, 50, 53, 50>>)}
        IN  IF hits = {}
            THEN /\ pc' = "finally"
                 /\ exit_code' = 1
                 /\ err'.kind = (IF rs = <<>> THEN "NoReaders" ELSE "ReaderNotFound")
                 /\ reader' = reader
            ELSE /\ pc' = "connect"
                 /\ err' = NoErr
                 /\ \E k \in hits :
                       /\ \A m \in hits : k <= m
                       /\ reader' = rs[k]

\* discovery runs once: no step leads back to it
C8_NoRetry ==
    pc \notin {"start", "find_reader"} => pc' \notin {"start", "find_reader"}

\* after a failed discovery nothing was attempted and the run is over
C8_NothingAfterFailure ==
    err.kind \in {"NoReaders", "ReaderNotFound"} =>
        /\ Exited
        /\ exit_code = 1
        /\ attempts = 0
        /\ connection = "None"
        /\ ~card_connected
        /\ log = <<>>

\* C8: find_reader selects the first enumerated reader whose name contains
\* "ACR1252"; with an empty enumeration or no such reader the run fails with
\* the reader-not-found error, discovery is not run again, and no connection
\* attempt and no exchange follows.
C8_ReaderDiscovery ==
    /\ [][C8_Selects /\ C8_NoRetry]_vars
    /\ []C8_NothingAfterFailure

\* a closed run whose enumeration of two readers held no ACR1252
C8_Witness ==
    /\ pc = "closed"
    /\ err.kind = "ReaderNotFound"
    /\ Len(err.available) = 2
    /\ attempts = 0

-----------------------------------------------------------------------------
(* Reading a TLV block back, as an NDEF reader does *)

Malformed == <<-1>>

IsContinuation(b) == b \in 128..191

Utf8Width(b) ==
    IF b < 128 THEN 1 ELSE IF b < 224 THEN 2 ELSE IF b < 240 THEN 3 ELSE 4

\* the code point encoded at b[lo .. lo + Utf8Width(b[lo]) - 1]
Utf8CodePoint(b, lo) ==
    LET w == Utf8Width(b[lo])
    IN  IF w = 1 THEN b[lo]
        ELSE IF w = 2 THEN (b[lo] - 192) * 64 + (b[lo + 1] - 128)
        ELSE IF w = 3
             THEN (b[lo] - 224) * 4096 + (b[lo + 1] - 128) * 64 + (b[lo + 2] - 128)
             ELSE (b[lo] - 240) * 262144 + (b[lo + 1] - 128) * 4096
                      + (b[lo + 2] - 128) * 64 + (b[lo + 3] - 128)

\* bytes b[lo..hi] decoded, b[lo] being the first byte of a character
RECURSIVE Utf8DecodeRange(_, _, _)
Utf8DecodeRange(b, lo, hi) ==
    IF lo > hi THEN <<>>
    ELSE IF IsContinuation(b[lo]) \/ lo + Utf8Width(b[lo]) - 1 > hi THEN Malformed
    ELSE IF lo + Utf8Width(b[lo]) - 1 = hi THEN <<Utf8CodePoint(b, lo)>>
    ELSE LET mid    == (lo + hi + 1) \div 2
             near   == {p \in (mid - 3)..(mid + 3) : lo < p /\ p <= hi}
             starts == {p \in near : ~IsContinuation(b[p])}
         IN  IF starts = {} THEN Malformed
             ELSE LET m == CHOOSE p \in starts : \A q \in starts : p <= q
                  IN  Utf8DecodeRange(b, lo, m - 1) \o Utf8DecodeRange(b, m, hi)

\* bytes.decode('utf-8')
Utf8Decode(b) == Utf8DecodeRange(b, 1, Len(b))

\* the prefix an abbreviation code stands for (NFC Forum URI RTD)
PrefixOfCode(c) ==
    IF c = 1 THEN <<104, 116, 116, 112, 58, 47, 47, 119, 119, 119, 46>>
    ELSE IF c = 2 THEN <<104, 116, 116, 112, 115, 58, 47, 47, 119, 119, 119, 46>>
    ELSE IF c = 3 THEN <<104, 116, 116, 112, 58, 47, 47>>
    ELSE IF c = 4 THEN <<104, 116, 116, 112, 115, 58, 47, 47>>
    ELSE IF c = 5 THEN <<116, 101, 108, 58>>
    ELSE IF c = 6 THEN <<109, 97, 105, 108, 116, 111, 58>>
    ELSE IF c = 13 THEN <<102, 116, 112, 58, 47, 47>>
    ELSE <<>>

\* the NDEF record inside a TLV block: tag 0x03, a 1-byte or 3-byte length,
\* the record, the terminator 0xFE
RecordOfTlv(b) ==
    IF Len(b) < 3 \/ b[1] # 3 THEN Malformed
    ELSE LET long == b[2] = 255
             off  == IF long THEN 4 ELSE 2
             n    == IF long THEN b[3] * 256 + b[4] ELSE b[2]
         IN  IF Len(b) < off + n + 1 \/ b[off + n + 1] # 254 THEN Malformed
             ELSE SubSeq(b, off + 1, off + n)

\* the payload of a short URI record: 0xD1, type length 1, payload length, 'U'
PayloadOfRecord(r) ==
    IF Len(r) < 5 \/ r[1] # 209 \/ r[2] # 1 \/ r[4] # 85 \/ r[3] # Len(r) - 4
    THEN Malformed
    ELSE SubSeq(r, 5, Len(r))

\* the URI a TLV block holds
DecodeUri(b) ==
    LET payload == PayloadOfRecord(RecordOfTlv(b))
    IN  IF payload = Malformed THEN Malformed
        ELSE PrefixOfCode(payload[1]) \o Utf8Decode(SubSeq(payload, 2, Len(payload)))

-----------------------------------------------------------------------------
\* the table entries whose prefix starts u, letter case ignored
C9_Candidates(u) ==
    {e \in {URI_IDENTIFIERS[k] : k \in 1..Len(URI_IDENTIFIERS)} :
        /\ Len(e.prefix) <= Len(u)
        /\ \A k \in 1..Len(e.prefix) : Lower(u[k]) = e.prefix[k]}

\* C9: the abbreviation chosen is the longest table prefix that starts the
\* URI, letter case ignored; the remainder is the URI without its first
\* len(prefix) characters; when no prefix matches the code is 0 and the
\* remainder is the whole URI.  The examples of the specification are cases.
C9_MostSpecificPrefix ==
    pc = "codec_done" =>
        /\ IF C9_Candidates(url) = {}
           THEN uri_code = 0 /\ uri_data = url
           ELSE \E e \in C9_Candidates(url) :
                   /\ \A f \in C9_Candidates(url) : Len(f.prefix) <= Len(e.prefix)
                   /\ uri_code = e.code
                   /\ uri_data = SubSeq(url, Len(e.prefix) + 1, Len(url))
        /\ url = <<104, 116, 116, 112, 115, 58, 47, 47, 119, 119, 119, 46>> \o ExampleTail => uri_code = 2 /\ uri_data = ExampleTail
        /\ url = <<104, 116, 116, 112, 115, 58, 47, 47>> \o ExampleTail => uri_code = 4 /\ uri_data = ExampleTail
        /\ url = <<104, 116, 116, 112, 58, 47, 47, 119, 119, 119, 46>> \o ExampleTail => uri_code = 1 /\ uri_data = ExampleTail
        /\ url = <<102, 116, 112, 58, 47, 47>> \o ExampleTail => uri_code = 13 /\ uri_data = ExampleTail
        /\ url = <<109, 97, 105, 108, 116, 111, 58>> \o ExampleTail => uri_code = 6 /\ uri_data = ExampleTail
        /\ url = ExampleTail => uri_code = 0 /\ uri_data = ExampleTail

\* "HTTPS://WWW." followed by "WWW.": the longer prefix wins over "https://"
\* and only the prefix is removed
C9_Witness ==
    /\ pc = "codec_done"
    /\ Len(url) > 16
    /\ SubSeq(url, 1, 16) = <<72, 84, 84, 80, 83, 58, 47, 47, 87, 87, 87, 46, 87, 87, 87, 46>>
    /\ uri_code = 2
    /\ SubSeq(uri_data, 1, 4) = <<87, 87, 87, 46>>

\* the payload built for the URL fits a short record
PayloadFits == 1 + Len(Utf8(uri_data)) <= 255

\* C10 as stated: for a URI whose payload has at most 255 bytes, reading the
\* TLV block back and putting the code's prefix before the remainder gives
\* exactly the original URI.
C10_RoundTripExact ==
    (pc = "codec_done" /\ PayloadFits) => DecodeUri(ndef_data) = url

\* C10 as amended: the URI read back is the original with the matched prefix
\* in the table's lower-case spelling and everything after it unchanged; it
\* is exactly the original when the original spells its prefix in lower case
\* or matches no prefix.
C10_RoundTripPrefixCase ==
    (pc = "codec_done" /\ PayloadFits) =>
        LET back == DecodeUri(ndef_data)
            plen == Len(url) - Len(uri_data)
        IN  /\ Len(back) = Len(url)
            /\ \A k \in 1..Len(url) :
                  back[k] = (IF k <= plen THEN Lower(url[k]) ELSE url[k])
            /\ (\A k \in 1..plen : Lower(url[k]) = url[k]) => back = url

\* a payload of exactly 255 bytes with a 3-byte character, under an
\* upper-case prefix: the TLV uses the 3-byte length form
C10_Witness ==
    /\ pc = "codec_done"
    /\ 1 + Len(Utf8(uri_data)) = 255
    /\ ndef_data[2] = 255
    /\ url[1] = 72
    /\ uri_data[1] = 3585
    /\ DecodeUri(ndef_data) # url

-----------------------------------------------------------------------------
\* the length of the record built for the URL: 4 header bytes, the code
\* byte, the bytes of the remainder
RecordLen == 5 + Len(Utf8(uri_data))

\* the bytes the TLV length field takes
LengthFieldLen == IF RecordLen < 255 THEN 1 ELSE 3

\* C11: the padded buffer has a length that is a multiple of 4; the
\* terminator 0xFE directly follows the last record byte; every byte after
\* the terminator is zero; fewer than 4 padding bytes are appended and the
\* bytes up to the terminator are the TLV block as it was built.  (The
\* record ends at offset 1 + length field + len(record); t is the next one.)
C11_PaddedBuffer ==
    pc = "codec_padded" =>
        LET t == 1 + LengthFieldLen + RecordLen + 1
        IN  /\ Len(ndef_data) % 4 = 0
            /\ Len(ndef_data) >= t
            /\ ndef_data[t] = 254
            /\ \A k \in (t + 1)..Len(ndef_data) : ndef_data[k] = 0
            /\ Len(ndef_data) - t < 4
            /\ SubSeq(ndef_data, 1, t) = create_ndef_uri(url)

\* a block of 263 bytes (payload 254, 3-byte length form) padded with one
\* zero byte
C11_Witness ==
    /\ pc = "codec_padded"
    /\ RecordLen = 258
    /\ Len(ndef_data) = 264
    /\ ndef_data[263] = 254
    /\ ndef_data[264] = 0

\* C12: the TLV block starts with tag 0x03; its length field is the one byte
\* len(record) when len(record) < 255 and the three bytes 0xFF, high byte,
\* low byte otherwise; the bytes between the length field and the terminator
\* are exactly len(record) many, also for records of 255 to 259 bytes.
C12_TlvLength ==
    pc = "codec_done" =>
        LET n == RecordLen
        IN  /\ ndef_data[1] = 3
            /\ IF n < 255
               THEN /\ ndef_data[2] = n
                    /\ Len(ndef_data) = 2 + n + 1
               ELSE /\ ndef_data[2] = 255
                    /\ ndef_data[3] * 256 + ndef_data[4] = n
                    /\ ndef_data[3] \in 0..255
                    /\ ndef_data[4] \in 0..255
                    /\ Len(ndef_data) = 4 + n + 1
            /\ ndef_data[Len(ndef_data)] = 254
            /\ ndef_data[1 + LengthFieldLen + 1] = 209

\* a record of exactly 255 bytes (payload 251): the first 3-byte length
C12_Witness ==
    /\ pc = "codec_done"
    /\ RecordLen = 255
    /\ SubSeq(ndef_data, 1, 4) = <<3, 255, 0, 255>>
    /\ Len(ndef_data) = 260

\* C13 as stated: every record built is 0xD1, 1, payload length, 0x55 and the
\* payload; the payload-length field equals 1 + the number of remainder
\* bytes and fits in one byte.
C13_ShortRecord ==
    pc = "codec_done" =>
        LET r == SubSeq(ndef_data, 1 + LengthFieldLen + 1, Len(ndef_data) - 1)
        IN  /\ r[1] = 209
            /\ r[2] = 1
            /\ r[4] = 85
            /\ r[3] = Len(r) - 4
            /\ r[3] = 1 + Len(Utf8(uri_data))
            /\ r[3] \in 0..255

-----------------------------------------------------------------------------
\* a step that hands a command to the transport hands one whose instruction
\* and page no earlier command of the run had
C14_NewCommand ==
    log' # log =>
        LET new == log'[Len(log')].apdu
        IN  /\ log' = Append(log, log'[Len(log')])
            /\ \A k \in 1..Len(log) :
                  log[k].apdu[2] # new[2] \/ log[k].apdu[4] # new[4]

\* C14: no page write is retried: within a run every page index is the
\* target of at most one write command (and the UID is read at most once);
\* only the connection attempt is repeated.
C14_NoWriteRetry == [][C14_NewCommand]_vars

\* a run that connected at its third attempt and ended with a failed write
\* of page 5, which stays the only write to page 5
C14_Witness ==
    /\ pc = "closed"
    /\ attempts = 3
    /\ Len(log) = 4
    /\ log[4].apdu[4] = 5
    /\ log[4].sw = <<99, 0>>
    /\ log[3].apdu[4] = 4

\* C15: every write command is 0xFF, 0xD6, 0x00, page, 0x04 and then exactly
\* 4 data bytes: the bytes given, in their positions, and zeros to the right
\* of them when fewer than 4 were given.
C15_WriteCommandForm ==
    /\ \A k \in 1..Len(log) :
          IsWrite(log[k].apdu) =>
              /\ Len(log[k].apdu) = 9
              /\ SubSeq(log[k].apdu, 1, 3) = <<255, 214, 0>>
              /\ log[k].apdu[5] = 4
    /\ pc = "write_page_done" =>
          /\ Len(log) = 1
          /\ SubSeq(log[1].apdu, 1, 5) = <<255, 214, 0, page, 4>>
          /\ \A j \in 1..4 :
                log[1].apdu[5 + j] =
                    (IF j <= Len(ndef_data) THEN ndef_data[j] ELSE 0)

\* write_page given the two bytes 7, 255 for page 69
C15_Witness ==
    /\ pc = "write_page_done"
    /\ ndef_data = <<7, 255>>
    /\ log[1].apdu = <<255, 214, 0, 69, 4, 7, 255, 0, 0>>

-----------------------------------------------------------------------------
\* a step that hands a command to the transport is taken while the session
\* holds a connection that was opened and not yet released
C16_ExchangeWhileConnected ==
    log' # log =>
        /\ connection = "conn"
        /\ card_connected
        /\ last_connect = "ok"
        /\ disconnect_calls = 0
        /\ release_attempts = 0

\* after a connection attempt that succeeded no further attempt is made
C16_NoAttemptAfterSuccess ==
    last_connect = "ok" =>
        /\ attempts' = attempts
        /\ last_connect' = "ok"
        /\ connection' = connection

\* C16: commands are exchanged only between the successful connection
\* attempt and the release of the connection, and once a connection attempt
\* has succeeded no further one is made in the run.
C16_SessionBrackets ==
    /\ [][C16_ExchangeWhileConnected /\ C16_NoAttemptAfterSuccess]_vars
    /\ [](log # <<>> => (last_connect = "ok" /\ connection = "conn"))

\* a closed run that exchanged commands after connecting at its second
\* attempt and released the connection afterwards
C16_Witness ==
    /\ pc = "closed"
    /\ attempts = 2
    /\ Len(log) >= 3
    /\ release_attempts = 1
    /\ ~card_connected

-----------------------------------------------------------------------------
\* main printed SUCCESS and returned
Succeeded == Exited /\ exit_code = 0

\* main went through sys.exit(1)
Failed == Exited /\ exit_code = 1

\* C17: a run reports success only after the UID read, the write of page 3
\* and all ceil(len(ndef_data) / 4) data page writes each came back with
\* 0x9000; a run with a failed exchange, a card timeout or no reader fails.
C17_SuccessMeansAllOk ==
    /\ Succeeded =>
          /\ err = NoErr
          /\ reader # <<>>
          /\ last_connect = "ok"
          /\ Len(log) = 2 + (Len(ndef_data) + 3) \div 4
          /\ \A k \in 1..Len(log) : log[k].sw = SW_OK
          /\ log[1].apdu = GetUidApdu
          /\ log[2].apdu = WritePageApdu(3, CapabilityContainer)
          /\ \A k \in 3..Len(log) :
                IsWrite(log[k].apdu) /\ log[k].apdu[4] = k + 1
    /\ err # NoErr <=> Failed
    /\ (\E k \in 1..Len(log) : log[k].sw # SW_OK) => Failed
    /\ (attempts = RetryBudget /\ last_connect # "ok") => Failed
    /\ (pc \notin {"start", "find_reader"} /\ reader = <<>>) => Failed

\* a run that reported success after connecting at its second attempt
C17_Witness ==
    /\ pc = "closed"
    /\ exit_code = 0
    /\ attempts = 2
    /\ Len(log) > 10
    /\ Len(tag[Len(log) + 1]) = 4

-----------------------------------------------------------------------------
\* C18: the first command of a run is the UID read; when its answer is not
\* 0x9000 the run fails with send_apdu's error and nothing else is exchanged:
\* no page is written and the tag is as it was.
C18_UidReadFirst ==
    log # <<>> =>
        /\ log[1].apdu = GetUidApdu
        /\ \A k \in 2..Len(log) : IsWrite(log[k].apdu)
        /\ log[1].sw # SW_OK =>
              /\ Len(log) = 1
              /\ tag = <<>>
              /\ uid = <<>>
              /\ ndef_data = <<>>
              /\ Failed
              /\ err = SendApduError(log[1].sw)
              /\ err # NoErr

\* a closed run whose UID read was answered 6A81
C18_Witness ==
    /\ pc = "closed"
    /\ Len(log) = 1
    /\ log[1].sw = <<106, 129>>
    /\ err = [kind |-> "APDUFailed", sw |-> <<54, 65, 56, 49>>]

-----------------------------------------------------------------------------
\* C19: when the payload has at most 255 bytes every write addresses a page
\* in 3..69, every data page one in 4..225, and the buffer has at most 872
\* bytes; for every URL the highest page written by a successful run is
\* 3 + len(ndef_data) / 4, whatever the length.
C19_PageRange ==
    LET w == Writes
    IN  /\ \A k \in 1..Len(w) :
              \/ /\ w[k].apdu[4] \in 3..69
                 /\ w[k].apdu[4] < 256
                 /\ k > 1 => w[k].apdu[4] \in 4..225
              \/ ~PayloadFits
        /\ Len(ndef_data) <= 872 \/ ~PayloadFits
        /\ Succeeded => w[Len(w)].apdu[4] = 3 + Len(ndef_data) \div 4

\* page 69 written by a successful run whose payload has 255 bytes
C19_Witness ==
    /\ Succeeded
    /\ Len(ndef_data) = 264
    /\ log[Len(log)].apdu[4] = 69
    /\ 1 + Len(Utf8(uri_data)) = 255

-----------------------------------------------------------------------------
\* the numbers of transport calls a run has made so far
C20_Counts ==
    /\ attempts <= 30
    /\ Len(SelectSeq(log, LAMBDA e : e.apdu = GetUidApdu)) <= 1
    /\ LET w == Writes
       IN  /\ Len(SelectSeq(w, LAMBDA e : e.apdu[4] = 3)) <= 1
           /\ Len(w) <= 1 + (Len(ndef_data) + 3) \div 4
    /\ disconnect_calls <= 1

\* C20: every run of main reaches the closed state, after at most 30
\* connection attempts, one UID read, one write of page 3 and
\* ceil(len(ndef_data) / 4) data page writes.
C20_Terminates == <>(pc = "closed") /\ []C20_Counts

\* a closed run that used all 30 connection attempts and wrote every page
C20_Witness ==
    /\ pc = "closed"
    /\ attempts = 30
    /\ exit_code = 0
    /\ Len(log) = 2 + (Len(ndef_data) + 3) \div 4

====
